---- MODULE Spec2Model ----
(***************************************************************************)
(* The raster image encoder of escpos.commandset.generic.Generic:          *)
(* _check_image_size, _convert_and_print_image and _print_image, with the  *)
(* byte sink (self._write) recorded as the sequence of writes of one call. *)
(* Python 2 semantics: "/" on ints is floor division, strings are byte     *)
(* strings, "%02X" pads to at least two hex digits, str.decode("hex")      *)
(* raises TypeError on an odd number of digits.                            *)
(***************************************************************************)
EXTENDS Integers, Sequences, FiniteSets, TLC

VARIABLES call, written, raised, locals, self, prev

vars == <<call, written, raised, locals, self, prev>>

(***************************************************************************)
(* Bounds of the model.                                                    *)
(***************************************************************************)
\* images of every width 0..MaxWidth and height 0..MaxHeight are encoded
MaxWidth == 40
MaxHeight == 3
\* the framer alone is applied to bit strings of up to MaxFramerBytes * 8 bits
MaxFramerBytes == 9
\* images of width 1..MaxSeqWidth and height 1..MaxSeqHeight are encoded one
\* after the other on the same object
MaxSeqWidth == 3
MaxSeqHeight == 2

(***************************************************************************)
(* Small helpers.                                                          *)
(***************************************************************************)
Min(a, b) == IF a <= b THEN a ELSE b

\* n copies of the character c: the loops "for i in range(n): s += c"
Repeat(c, n) == [i \in 1..n |-> c]

\* s[i:j] of Python, for 0 <= i <= j (j is clipped to len(s))
Slice(s, i, j) == SubSeq(s, i + 1, Min(j, Len(s)))

(***************************************************************************)
(* Text conversions of Python 2.  A hex digit is modelled by its value     *)
(* 0..15, a byte by its value 0..255, a binary digit by "0" or "1".        *)
(***************************************************************************)
\* the hex digits of n >= 0, most significant first, no padding ("%X")
RECURSIVE HexDigits(_)
HexDigits(n) == IF n < 16 THEN <<n>> ELSE Append(HexDigits(n \div 16), n % 16)

\* "%02X" % n: at least two digits, zero padded, never truncated
Hex02(n) == IF n < 16 THEN <<0, n>> ELSE HexDigits(n)

\* buffer.decode("hex") is defined for an even number of digits only
HexDecodable(buffer) == Len(buffer) % 2 = 0

HexDecode(buffer) ==
    [k \in 1..(Len(buffer) \div 2) |-> 16 * buffer[2 * k - 1] + buffer[2 * k]]

\* int(s, 2) for a non-empty string of binary digits, most significant first
RECURSIVE IntBase2(_)
IntBase2(s) ==
    IF Len(s) = 0 THEN 0
    ELSE 2 * IntBase2(SubSeq(s, 1, Len(s) - 1)) + (IF s[Len(s)] = "1" THEN 1 ELSE 0)

\* "%d" % switch
FormatD(n) == IF n = 0 THEN "0" ELSE "1"

(***************************************************************************)
(* Class constants.                                                        *)
(***************************************************************************)
\* _image_size['1x1'] = '\x1d\x76\x30\x00'
image_size_1x1 == <<29, 118, 48, 0>>

im_pattern == <<"1", "X", "0">>

(***************************************************************************)
(* Variants of the code below, each with one plausible slip; a property    *)
(* that holds of the code fails when the variant stands in for it.         *)
(***************************************************************************)
\* _check_image_size giving the odd bit to the left border
check_image_size_left_odd(size) ==
    IF size % 32 = 0
    THEN <<0, 0>>
    ELSE LET image_border == 32 - (size % 32)
         IN  IF image_border % 2 = 0
             THEN <<image_border \div 2, image_border \div 2>>
             ELSE <<(image_border \div 2) + 1, image_border \div 2>>

(***************************************************************************)
(* _check_image_size(size)                                                 *)
(***************************************************************************)
check_image_size(size) ==
    IF size % 32 = 0
    THEN <<0, 0>>
    ELSE LET image_border == 32 - (size % 32)
         IN  IF image_border % 2 = 0
             THEN <<image_border \div 2, image_border \div 2>>
             ELSE <<image_border \div 2, (image_border \div 2) + 1>>

(***************************************************************************)
(* The input image: im.size = (width, height) and im.getpixel((x, y)).     *)
(* A test image repeats a palette of RGB triples along its scan lines, the *)
(* palette shifted by one entry from each line to the next.                *)
(***************************************************************************)
getpixel(im, x, y) == im.pal[((x + y) % Len(im.pal)) + 1]

(***************************************************************************)
(* _print_image(line, size)                                                *)
(***************************************************************************)
\* the loop body flushing at "cont % 2 == 0"
PrintBodyFlushAt2(line, k, st) ==
    LET i == 8 * k
        hex_string == IntBase2(Slice(line, i, i + 8))
        buffer == st.buffer \o Hex02(hex_string)
        cont == st.cont + 1
    IN  IF cont % 2 = 0
        THEN [cont |-> 0, buffer |-> <<>>, out |-> Append(st.out, HexDecode(buffer))]
        ELSE [cont |-> cont, buffer |-> buffer, out |-> st.out]

\* one pass of the body of "while i < len(line)", entered with i = 8 * k
PrintBody(line, k, st) ==
    LET i == 8 * k
        hex_string == IntBase2(Slice(line, i, i + 8))
        buffer == st.buffer \o Hex02(hex_string)
        cont == st.cont + 1
    IN  IF cont % 4 = 0
        THEN [cont |-> 0, buffer |-> <<>>, out |-> Append(st.out, HexDecode(buffer))]
        ELSE [cont |-> cont, buffer |-> buffer, out |-> st.out]

\* passes lo .. hi - 1 of the loop, in order.  The range is run by halves and
\* the first half is evaluated (first = first) before the second starts: the
\* passes and their order are those of the loop, the evaluation stays shallow.
RECURSIVE PrintLoop(_, _, _, _)
PrintLoop(line, lo, hi, st) ==
    IF lo >= hi THEN st
    ELSE IF hi = lo + 1 THEN PrintBody(line, lo, st)
    ELSE LET mid == (lo + hi) \div 2
             first == PrintLoop(line, lo, mid, st)
         IN  IF first = first THEN PrintLoop(line, mid, hi, first) ELSE st

\* the number of passes of "while i < len(line)" with i += 8
PrintPasses(line) == (Len(line) + 7) \div 8

\* the header without the division by the row count: "size[0] / 8"
HeaderHexNoRows(size) ==
    Hex02(size[1] \div 8) \o Hex02(0) \o Hex02(size[2]) \o Hex02(0)

\* "%02X%02X%02X%02X" % (((size[0] / size[1]) / 8), 0, size[1], 0)
HeaderHex(size) ==
    Hex02((size[1] \div size[2]) \div 8) \o Hex02(0) \o Hex02(size[2]) \o Hex02(0)

\* the writes the call makes and the exception it ends with ("none": returns)
print_image(line, size) ==
    IF size[2] = 0
    THEN [written |-> <<image_size_1x1>>, raised |-> "ZeroDivisionError"]
    ELSE IF ~HexDecodable(HeaderHex(size))
    THEN [written |-> <<image_size_1x1>>, raised |-> "TypeError"]
    ELSE LET st0 == [cont |-> 0, buffer |-> <<>>,
                     out |-> <<image_size_1x1, HexDecode(HeaderHex(size))>>]
         IN  \* a buffer left when the loop ends is not written
             [written |-> PrintLoop(line, 0, PrintPasses(line), st0).out,
              raised |-> "none"]

(***************************************************************************)
(* _convert_and_print_image(im)                                            *)
(***************************************************************************)
\* the band test with "<" for "<="
RECURSIVE PatternLoopStrict(_, _, _)
PatternLoopStrict(im_color, switch, x) ==
    LET pattern_len == Len(im_pattern)
    IN  IF x >= pattern_len
        THEN <<>>
        ELSE IF im_color < ((255 * 3) \div pattern_len) * (x + 1)
        THEN IF im_pattern[x + 1] = "X"
             THEN <<FormatD(switch)>>
             ELSE <<im_pattern[x + 1]>>
        ELSE IF /\ im_color > ((255 * 3) \div pattern_len) * pattern_len
                /\ im_color <= 255 * 3
        THEN <<im_pattern[pattern_len]>>
        ELSE PatternLoopStrict(im_color, switch, x + 1)

\* the loop "for x in range(pattern_len)": what one pixel appends to pix_line
RECURSIVE PatternLoop(_, _, _)
PatternLoop(im_color, switch, x) ==
    LET pattern_len == Len(im_pattern)
    IN  IF x >= pattern_len
        THEN <<>>
        ELSE IF im_color <= ((255 * 3) \div pattern_len) * (x + 1)
        THEN IF im_pattern[x + 1] = "X"
             THEN <<FormatD(switch)>>
             ELSE <<im_pattern[x + 1]>>
        ELSE IF /\ im_color > ((255 * 3) \div pattern_len) * pattern_len
                /\ im_color <= 255 * 3
        THEN <<im_pattern[pattern_len]>>
        ELSE PatternLoop(im_color, switch, x + 1)

\* switch = (switch - 1) * (-1)
Toggle(switch) == (switch - 1) * (-1)

\* the pixel body with the flag flipped for middle-band pixels only
PixelBodyTogglesInBand(im, y, x, st) ==
    LET RGB == getpixel(im, x, y)
        im_color == RGB[1] + RGB[2] + RGB[3]
        switch == IF im_color > 255 /\ im_color <= 510
                  THEN Toggle(st.switch) ELSE st.switch
    IN  [pix_line |-> st.pix_line \o PatternLoop(im_color, switch, 0),
         img_size |-> <<st.img_size[1] + 1, st.img_size[2]>>,
         switch |-> switch]

\* the body of "for x in range(im.size[0])" for pixel x of row y
PixelBody(im, y, x, st) ==
    LET RGB == getpixel(im, x, y)
        im_color == RGB[1] + RGB[2] + RGB[3]
        switch == Toggle(st.switch)
    IN  [pix_line |-> st.pix_line \o PatternLoop(im_color, switch, 0),
         img_size |-> <<st.img_size[1] + 1, st.img_size[2]>>,
         switch |-> switch]

\* pixels lo .. hi - 1 of row y, in order
RECURSIVE PixelLoop(_, _, _, _, _)
PixelLoop(im, y, lo, hi, st) ==
    IF lo >= hi THEN st
    ELSE IF hi = lo + 1 THEN PixelBody(im, y, lo, st)
    ELSE LET mid == (lo + hi) \div 2
             first == PixelLoop(im, y, lo, mid, st)
         IN  IF first = first THEN PixelLoop(im, y, mid, hi, first) ELSE st

\* the row body with "switch = 0" at the start of every row
RowBodyResetsSwitch(im, im_border, y, st) ==
    LET im_left == Repeat("0", im_border[1])
        im_right == Repeat("0", im_border[2])
        s1 == [pix_line |-> st.pix_line \o im_left,
               img_size |-> <<st.img_size[1] + im_border[1], st.img_size[2] + 1>>,
               switch |-> 0]
        s2 == PixelLoop(im, y, 0, im.size[1], s1)
    IN  [pix_line |-> s2.pix_line \o im_right,
         img_size |-> <<s2.img_size[1] + im_border[2], s2.img_size[2]>>,
         switch |-> s2.switch]

\* the row body without "img_size[0] += im_border[1]"
RowBodyNoRightCount(im, im_border, y, st) ==
    LET im_left == Repeat("0", im_border[1])
        im_right == Repeat("0", im_border[2])
        s1 == [pix_line |-> st.pix_line \o im_left,
               img_size |-> <<st.img_size[1] + im_border[1], st.img_size[2] + 1>>,
               switch |-> st.switch]
        s2 == PixelLoop(im, y, 0, im.size[1], s1)
    IN  [pix_line |-> s2.pix_line \o im_right,
         img_size |-> s2.img_size,
         switch |-> s2.switch]

\* the body of the loop "for y in range(im.size[1])"
RowBody(im, im_border, y, st) ==
    LET im_left == Repeat("0", im_border[1])
        im_right == Repeat("0", im_border[2])
        s1 == [pix_line |-> st.pix_line \o im_left,
               img_size |-> <<st.img_size[1] + im_border[1], st.img_size[2] + 1>>,
               switch |-> st.switch]
        s2 == PixelLoop(im, y, 0, im.size[1], s1)
    IN  [pix_line |-> s2.pix_line \o im_right,
         img_size |-> <<s2.img_size[1] + im_border[2], s2.img_size[2]>>,
         switch |-> s2.switch]

\* rows lo .. hi - 1, in order
RECURSIVE RowLoop(_, _, _, _, _)
RowLoop(im, im_border, lo, hi, st) ==
    IF lo >= hi THEN st
    ELSE IF hi = lo + 1 THEN RowBody(im, im_border, lo, st)
    ELSE LET mid == (lo + hi) \div 2
             first == RowLoop(im, im_border, lo, mid, st)
         IN  IF first = first THEN RowLoop(im, im_border, mid, hi, first) ELSE st

\* pix_line = "", switch = 0, img_size = [0, 0]
InitLocals == [pix_line |-> <<>>, img_size |-> <<0, 0>>, switch |-> 0]

\* the height check off by one: "im.size[1] > 256"
convert_and_print_image_256(im) ==
    IF im.size[2] > 256
    THEN [written |-> <<>>, raised |-> "ValueError", locals |-> InitLocals]
    ELSE LET im_border == check_image_size(im.size[1])
             st == RowLoop(im, im_border, 0, im.size[2], InitLocals)
             r == print_image(st.pix_line, st.img_size)
         IN  [written |-> r.written, raised |-> r.raised,
              locals |-> [im_border |-> im_border, pix_line |-> st.pix_line,
                          img_size |-> st.img_size, switch |-> st.switch]]

\* the encoder with switch kept from the call before instead of "switch = 0"
convert_and_print_image_keeps_switch(im) ==
    IF im.size[2] > 255
    THEN [written |-> <<>>, raised |-> "ValueError", locals |-> locals]
    ELSE LET im_border == check_image_size(im.size[1])
             st == RowLoop(im, im_border, 0, im.size[2],
                           [pix_line |-> <<>>, img_size |-> <<0, 0>>,
                            switch |-> locals.switch])
             r == print_image(st.pix_line, st.img_size)
         IN  [written |-> r.written, raised |-> r.raised,
              locals |-> [im_border |-> im_border, pix_line |-> st.pix_line,
                          img_size |-> st.img_size, switch |-> st.switch]]

\* the writes made, the exception raised and the locals when _print_image is
\* called (im_border is not yet assigned when the height check raises)
convert_and_print_image(im) ==
    IF im.size[2] > 255
    THEN [written |-> <<>>, raised |-> "ValueError", locals |-> InitLocals]
    ELSE LET im_border == check_image_size(im.size[1])
             st == RowLoop(im, im_border, 0, im.size[2], InitLocals)
             r == print_image(st.pix_line, st.img_size)
         IN  [written |-> r.written, raised |-> r.raised,
              locals |-> [im_border |-> im_border, pix_line |-> st.pix_line,
                          img_size |-> st.img_size, switch |-> st.switch]]

(***************************************************************************)
(* Inputs.                                                                 *)
(***************************************************************************)
Black == <<0, 0, 0>>
White == <<255, 255, 255>>
Grey == <<128, 128, 128>>

\* channel values whose sums reach both sides of every band edge
ChannelValues == {0, 1, 128, 255}

Palettes ==
    { <<Black>>, <<White>>, <<Grey>>,
      <<<<1, 0, 255>>, <<255, 255, 0>>>>,
      <<Black, Grey, White>>,
      <<<<0, 0, 255>>, <<1, 0, 255>>, <<255, 255, 0>>, <<255, 255, 1>>>>,
      <<Grey, Grey, Black, White, Grey>> }

SmallImages ==
    { [size |-> <<w, h>>, pal |-> p] : w \in 0..MaxWidth, h \in 0..MaxHeight, p \in Palettes }

PixelImages ==
    { [size |-> <<1, 1>>, pal |-> << <<r, g, b>> >>] :
          r \in ChannelValues, g \in ChannelValues, b \in ChannelValues }

\* sizes at and beyond the limits of the protocol's one-byte fields
LargeSizes ==
    { <<512, 1>>, <<512, 2>>, <<513, 1>>, <<600, 1>>, <<600, 2>>,
      <<2016, 1>>, <<2017, 1>>, <<3, 255>>,
      <<0, 255>>, <<0, 256>>, <<3, 256>>, <<600, 256>>, <<2017, 256>> }

LargeImages ==
    { [size |-> s, pal |-> p] : s \in LargeSizes, p \in {<<Black>>, <<Grey>>, <<Black, Grey, White>>} }

Images == SmallImages \cup PixelImages \cup LargeImages

(***************************************************************************)
(* The state machine.  A behaviour is one printer object and one call on   *)
(* it: call is the call made, written the writes it made to the sink in    *)
(* order, raised the exception it ended with, locals the local variables   *)
(* of _convert_and_print_image when it handed over to _print_image.  The   *)
(* encoder reads and assigns no attribute of the object.  self holds the   *)
(* attributes of the object, prev the image of the encode call before the  *)
(* last call ("none": there was none).                                     *)
(***************************************************************************)
\* the class attributes of lines 32-37
ClassAttributes ==
    [usePrintMode |-> FALSE, _textFont |-> "a", _textBold |-> FALSE,
     _textUnderline |-> FALSE, _textDoubleHeight |-> FALSE,
     _textDoubleWidth |-> FALSE]

NoImage == [size |-> <<0, 0>>, pal |-> <<>>, none |-> TRUE]

Init ==
    /\ call = [op |-> "new"]
    /\ written = <<>>
    /\ raised = "none"
    /\ locals = InitLocals
    /\ self = ClassAttributes
    /\ prev = NoImage

\* printer._convert_and_print_image(im), as image() and qr() call it
ConvertAndPrintImage(im) ==
    LET r == convert_and_print_image(im)
    IN  /\ call.op = "new"
        /\ call' = [op |-> "_convert_and_print_image", im |-> im]
        /\ written' = r.written
        /\ raised' = r.raised
        /\ locals' = r.locals
        /\ UNCHANGED <<self, prev>>

Next == \E im \in Images : ConvertAndPrintImage(im)

Spec == Init /\ [][Next]_vars

(***************************************************************************)
(* Encode calls one after the other on the same object.                    *)
(***************************************************************************)
SeqSizes ==
    { <<w, h>> : w \in 1..MaxSeqWidth, h \in 1..MaxSeqHeight }
        \cup { <<1, 0>>, <<0, 1>>, <<1, 256>> }

SeqImages ==
    { [size |-> s, pal |-> p] : s \in SeqSizes, p \in {<<Grey>>, <<Black, Grey, White>>} }

\* printer._convert_and_print_image(im) after any earlier calls
ConvertAndPrintNextImage(im) ==
    LET r == convert_and_print_image(im)
    IN  /\ call' = [op |-> "_convert_and_print_image", im |-> im]
        /\ written' = r.written
        /\ raised' = r.raised
        /\ locals' = r.locals
        /\ prev' = IF call.op = "_convert_and_print_image" THEN call.im ELSE prev
        /\ UNCHANGED self

NextSeq == \E im \in SeqImages : ConvertAndPrintNextImage(im)

SpecSeq == Init /\ [][NextSeq]_vars

(***************************************************************************)
(* The text style methods.  An argument is modelled by its Python text:    *)
(* "True" and "False" are the two bool values, "1" is a value of another   *)
(* type; a method returns the attributes of the object after the call,     *)
(* the writes made and the exception raised.                               *)
(***************************************************************************)
IsBool(v) == v \in {"True", "False"}
Truth(v) == v = "True"

\* _ESC = '\x1b'
ESC == 27

\* _fontMap = {'a': '\x00', 'b': '\x01', 'c': '\x02'}
fontMap == [a |-> 0, b |-> 1, c |-> 2]

Raises(s, error) == [self |-> s, written |-> <<>>, raised |-> error]
Writes(s, bytes) == [self |-> s, written |-> <<bytes>>, raised |-> "none"]
WritesNothing(s) == [self |-> s, written |-> <<>>, raised |-> "none"]

\* _updatePrintMode with the double width flag in the place of double height
updatePrintModeWidthTwice(s) ==
    LET value == << IF s._textFont = "b" THEN "1" ELSE "0", "0", "0",
                    IF s._textBold THEN "1" ELSE "0",
                    IF s._textDoubleWidth THEN "1" ELSE "0",
                    IF s._textDoubleWidth THEN "1" ELSE "0",
                    IF s._textUnderline THEN "1" ELSE "0" >>
    IN  Writes(s, <<ESC, 33, IntBase2(value)>>)

\* _updatePrintMode(): self._write(self._ESC + '!' + chr(int(value, 2)))
updatePrintMode(s) ==
    LET value == << IF s._textFont = "b" THEN "1" ELSE "0", "0", "0",
                    IF s._textBold THEN "1" ELSE "0",
                    IF s._textDoubleHeight THEN "1" ELSE "0",
                    IF s._textDoubleWidth THEN "1" ELSE "0",
                    IF s._textUnderline THEN "1" ELSE "0" >>
    IN  Writes(s, <<ESC, 33, IntBase2(value)>>)

\* bold(bold)
bold(s, b) ==
    IF ~IsBool(b) THEN Raises(s, "ValueError")
    ELSE IF s.usePrintMode
    THEN updatePrintMode([s EXCEPT !._textBold = Truth(b)])
    ELSE IF Truth(b) THEN Writes(s, <<ESC, 69, 1>>)
    ELSE Writes(s, <<ESC, 69, 0>>)

\* doubleHeight(doubleHeight): no branch for usePrintMode False
doubleHeight(s, b) ==
    IF ~IsBool(b) THEN Raises(s, "ValueError")
    ELSE IF s.usePrintMode
    THEN updatePrintMode([s EXCEPT !._textDoubleHeight = Truth(b)])
    ELSE WritesNothing(s)

\* doubleWidth(doubleWidth): no branch for usePrintMode False
doubleWidth(s, b) ==
    IF ~IsBool(b) THEN Raises(s, "ValueError")
    ELSE IF s.usePrintMode
    THEN updatePrintMode([s EXCEPT !._textDoubleWidth = Truth(b)])
    ELSE WritesNothing(s)

\* font(font)
font(s, f) ==
    IF f \notin DOMAIN fontMap THEN Raises(s, "ValueError")
    ELSE IF s.usePrintMode
    THEN updatePrintMode([s EXCEPT !._textFont = f])
    ELSE Writes(s, <<ESC, 77, fontMap[f]>>)

\* underline(underline, doubleDot)
underline(s, u, doubleDot) ==
    IF ~IsBool(u) THEN Raises(s, "ValueError")
    ELSE IF ~IsBool(doubleDot) THEN Raises(s, "ValueError")
    ELSE IF s.usePrintMode
    THEN updatePrintMode([s EXCEPT !._textUnderline = Truth(u)])
    ELSE IF Truth(u) /\ Truth(doubleDot) THEN Writes(s, <<ESC, 45, 2>>)
    ELSE IF Truth(u) THEN Writes(s, <<ESC, 45, 1>>)
    ELSE Writes(s, <<ESC, 45, 0>>)

\* the arguments tried: the bools and a value that is no bool; the fonts and
\* a name that is no font
BoolArgs == {"True", "False", "1"}
FontArgs == {"a", "b", "c", "d"}

\* printer.usePrintMode = m, set before the object is used
SetUsePrintMode(m) ==
    /\ call.op = "new"
    /\ self' = [self EXCEPT !.usePrintMode = m]
    /\ UNCHANGED <<call, written, raised, locals, prev>>

\* printer.font(f)
Font(f) ==
    LET r == font(self, f)
    IN  /\ call' = [op |-> "font", args |-> <<f>>]
        /\ self' = r.self
        /\ written' = r.written
        /\ raised' = r.raised
        /\ UNCHANGED <<locals, prev>>

\* printer.bold(b)
Bold(b) ==
    LET r == bold(self, b)
    IN  /\ call' = [op |-> "bold", args |-> <<b>>]
        /\ self' = r.self
        /\ written' = r.written
        /\ raised' = r.raised
        /\ UNCHANGED <<locals, prev>>

\* printer.doubleHeight(b)
DoubleHeight(b) ==
    LET r == doubleHeight(self, b)
    IN  /\ call' = [op |-> "doubleHeight", args |-> <<b>>]
        /\ self' = r.self
        /\ written' = r.written
        /\ raised' = r.raised
        /\ UNCHANGED <<locals, prev>>

\* printer.doubleWidth(b)
DoubleWidth(b) ==
    LET r == doubleWidth(self, b)
    IN  /\ call' = [op |-> "doubleWidth", args |-> <<b>>]
        /\ self' = r.self
        /\ written' = r.written
        /\ raised' = r.raised
        /\ UNCHANGED <<locals, prev>>

\* printer.underline(u, doubleDot)
Underline(u, doubleDot) ==
    LET r == underline(self, u, doubleDot)
    IN  /\ call' = [op |-> "underline", args |-> <<u, doubleDot>>]
        /\ self' = r.self
        /\ written' = r.written
        /\ raised' = r.raised
        /\ UNCHANGED <<locals, prev>>

NextStyle ==
    \/ \E m \in BOOLEAN : SetUsePrintMode(m)
    \/ \E f \in FontArgs : Font(f)
    \/ \E b \in BoolArgs : Bold(b)
    \/ \E b \in BoolArgs : DoubleHeight(b)
    \/ \E b \in BoolArgs : DoubleWidth(b)
    \/ \E u \in BoolArgs : \E doubleDot \in BoolArgs : Underline(u, doubleDot)

SpecStyle == Init /\ [][NextStyle]_vars

(***************************************************************************)
(* The framer applied on its own to a bit string and a size.               *)
(***************************************************************************)
\* bit k (from 0) of the test string number p
PatternBit(p, k) ==
    CASE p = 0 -> "0"
      [] p = 1 -> "1"
      [] p = 2 -> IF k % 2 = 0 THEN "1" ELSE "0"
      [] p = 3 -> IF k % 3 = 0 THEN "1" ELSE "0"
      [] p = 4 -> IF k % 8 = 7 THEN "1" ELSE "0"
      [] OTHER -> IF (k % 8 = 0) \/ (k % 5 = 1) THEN "1" ELSE "0"

PatternLines ==
    { [k \in 1..(8 * n) |-> PatternBit(p, k - 1)] : n \in 0..MaxFramerBytes, p \in 0..5 }

\* every string of 8 bits
ByteLines == [1..8 -> {"0", "1"}]

Lines == PatternLines \cup ByteLines

\* printer._print_image(line, size)
PrintImage(line, size) ==
    LET r == print_image(line, size)
    IN  /\ call.op = "new"
        /\ call' = [op |-> "_print_image", line |-> line, size |-> size]
        /\ written' = r.written
        /\ raised' = r.raised
        /\ UNCHANGED <<locals, self, prev>>

NextFramer == \E line \in Lines : PrintImage(line, <<Len(line), 1>>)

SpecFramer == Init /\ [][NextFramer]_vars

(***************************************************************************)
(* What the claims speak of, stated from the image and not from the loops. *)
(***************************************************************************)
Encoded == call.op = "_convert_and_print_image"
Width == call.im.size[1]
Height == call.im.size[2]

\* leftBits, rightBits and the length of one padded row for width w
LeftBits(w) == check_image_size(w)[1]
RightBits(w) == check_image_size(w)[2]
PaddedWidth(w) == LeftBits(w) + w + RightBits(w)

\* the colour sum of pixel (x, y)
ColourSum(im, x, y) == im.pal[((x + y) % Len(im.pal)) + 1][1]
                       + im.pal[((x + y) % Len(im.pal)) + 1][2]
                       + im.pal[((x + y) % Len(im.pal)) + 1][3]

\* the parity flag at the pixel of scan index k: 1 at the first pixel
FlagAt(k) == IF k % 2 = 0 THEN 1 ELSE 0

\* the bit of pixel (x, y) by the three bands
BandBit(im, x, y) ==
    LET s == ColourSum(im, x, y)
    IN  IF s <= 255 THEN 1
        ELSE IF s <= 510 THEN FlagAt(y * im.size[1] + x)
        ELSE 0

\* bit k (from 0) of the padded bit matrix of im, rows top to bottom
MatrixBit(im, k) ==
    LET w == im.size[1]
        y == k \div PaddedWidth(w)
        c == k % PaddedWidth(w)
    IN  IF c < LeftBits(w) \/ c >= LeftBits(w) + w THEN 0
        ELSE BandBit(im, c - LeftBits(w), y)

\* byte j (from 0) of the matrix packed 8 bits to a byte, first bit highest
MatrixByte(im, j) ==
    128 * MatrixBit(im, 8 * j) + 64 * MatrixBit(im, 8 * j + 1)
    + 32 * MatrixBit(im, 8 * j + 2) + 16 * MatrixBit(im, 8 * j + 3)
    + 8 * MatrixBit(im, 8 * j + 4) + 4 * MatrixBit(im, 8 * j + 5)
    + 2 * MatrixBit(im, 8 * j + 6) + MatrixBit(im, 8 * j + 7)

\* the number of packed bytes of an image of width w and height h
PackedCount(w, h) == (h * PaddedWidth(w)) \div 8

\* the bit the encoder appended for pixel (x, y), as a number
PixelBitOf(x, y) ==
    IF locals.pix_line[y * PaddedWidth(Width) + LeftBits(Width) + x + 1] = "1" THEN 1 ELSE 0

\* a supported image: width in 1..512 and height in 1..255
Supported == Encoded /\ Width \in 1..512 /\ Height \in 1..255

\* C1: one encode call of a supported image makes exactly 2 + N/4 writes:
\* the preamble 1D 76 30 00, then the 4-byte header, then the N packed bytes
\* of the matrix in row-major order, four to a write.
WritesFraming ==
    Supported =>
        LET N == PackedCount(Width, Height)
        IN  /\ raised = "none"
            /\ Len(written) = 2 + (N \div 4)
            /\ written[1] = <<29, 118, 48, 0>>
            /\ Len(written[2]) = 4
            /\ \A k \in 3..Len(written) : Len(written[k]) = 4
            /\ \A j \in 0..(N - 1) :
                   written[3 + (j \div 4)][1 + (j % 4)] = MatrixByte(call.im, j)

\* a 32x1 all-black image gives preamble, [4,0,1,0], FF FF FF FF
WritesFramingWitness ==
    /\ Encoded
    /\ call.im = [size |-> <<32, 1>>, pal |-> <<Black>>]
    /\ written = << <<29, 118, 48, 0>>, <<4, 0, 1, 0>>, <<255, 255, 255, 255>> >>

\* C2: the header of a supported image is [W, 0, H, 0] with H the height and
\* W the byte count of one padded row, whatever the height.
HeaderBytes ==
    Supported =>
        /\ Len(written) >= 2
        /\ written[2] = <<PaddedWidth(Width) \div 8, 0, Height, 0>>

\* an image of several rows, whose accumulated bit count is not its row length
HeaderBytesWitness ==
    /\ Supported
    /\ Width = 33
    /\ Height = 3
    /\ written[2] = <<8, 0, 3, 0>>

\* C3: for width >= 1 the padding (l, r) is non-negative, l + width + r is a
\* multiple of 32, r - l is 0 or 1, (0, 0) exactly at multiples of 32, and
\* l + r = 32 - (width mod 32) otherwise.
PaddingShape ==
    (Encoded /\ Width >= 1 /\ raised # "ValueError") =>
        LET l == locals.im_border[1]
            r == locals.im_border[2]
        IN  /\ l >= 0
            /\ r >= 0
            /\ (l + Width + r) % 32 = 0
            /\ r - l \in {0, 1}
            /\ (l = 0 /\ r = 0) <=> (Width % 32 = 0)
            /\ (Width % 32 # 0) => (l + r = 32 - (Width % 32))

\* an odd deficit: width 33 needs 31 bits, 15 left and 16 right
PaddingShapeWitness ==
    /\ Encoded
    /\ Width = 33
    /\ raised = "none"
    /\ locals.im_border = <<15, 16>>

\* C4: every pixel yields exactly one bit, by the first band its colour sum
\* satisfies: 1 up to 255, the parity flag's value up to 510, 0 above.
OneBitPerPixel ==
    (Encoded /\ Width >= 1 /\ Height \in 1..255) =>
        /\ Len(locals.pix_line) = Height * PaddedWidth(Width)
        /\ \A y \in 0..(Height - 1) : \A x \in 0..(Width - 1) :
               PixelBitOf(x, y) = BandBit(call.im, x, y)

\* an image whose pixels have the colour sums 255, 256, 510 and 511
OneBitPerPixelWitness ==
    /\ Encoded
    /\ raised = "none"
    /\ Width >= 4
    /\ Height >= 2
    /\ call.im.pal = <<<<0, 0, 255>>, <<1, 0, 255>>, <<255, 255, 0>>, <<255, 255, 1>>>>

\* every pixel of the image is in the middle band
AllMiddle(im) ==
    \A i \in 1..Len(im.pal) :
        im.pal[i][1] + im.pal[i][2] + im.pal[i][3] \in 256..510

\* C5: in an image of middle-band pixels only, the non-padding bits in scan
\* order are 1,0,1,0,...: the alternation runs on across the rows.
MidToneAlternates ==
    (Encoded /\ Width >= 1 /\ Height \in 1..255 /\ AllMiddle(call.im)) =>
        \A y \in 0..(Height - 1) : \A x \in 0..(Width - 1) :
            PixelBitOf(x, y) = (IF (y * Width + x) % 2 = 0 THEN 1 ELSE 0)

\* an odd width, so that the second row starts with 0
MidToneAlternatesWitness ==
    /\ Encoded
    /\ AllMiddle(call.im)
    /\ Width = 3
    /\ Height = 2
    /\ SubSeq(locals.pix_line, 15, 17) = <<"1", "0", "1">>
    /\ SubSeq(locals.pix_line, 32 + 15, 32 + 17) = <<"0", "1", "0">>

\* C6: an image of height above 255 is rejected with an error before any
\* write, whatever its width.
TallRejected ==
    (Encoded /\ Height > 255) => (raised = "ValueError" /\ written = <<>>)

TallRejectedWitness ==
    /\ Encoded
    /\ Height = 256
    /\ Width = 600
    /\ raised = "ValueError"

\* C7: an encode call that ends in an error has made no write to the sink.
NoWriteOnError ==
    (Encoded /\ raised # "none") => written = <<>>

\* C8: an image of width 0 is rejected, and nothing is written.
ZeroWidthRejected ==
    (Encoded /\ Width = 0) => (raised # "none" /\ written = <<>>)

\* C9: an image of width above 512 and height in 1..255 raises no error and
\* gets the complete raster command of its full width.
WideEncoded ==
    (Encoded /\ Width > 512 /\ Height \in 1..255) =>
        LET N == PackedCount(Width, Height)
        IN  /\ raised = "none"
            /\ Len(written) = 2 + (N \div 4)
            /\ written[2] = <<PaddedWidth(Width) \div 8, 0, Height, 0>>
            /\ \A j \in 0..(N - 1) :
                   written[3 + (j \div 4)][1 + (j % 4)] = MatrixByte(call.im, j)

(***************************************************************************)
(* The framer on its own.                                                  *)
(***************************************************************************)
Framed == call.op = "_print_image"

\* the data bytes written: every write after the preamble and the header
RECURSIVE Flatten(_)
Flatten(ws) == IF Len(ws) = 0 THEN <<>> ELSE Head(ws) \o Flatten(Tail(ws))

DataBytes == Flatten(SubSeq(written, 3, Len(written)))

\* bit t (0 the highest) of byte b
BitOfByte(b, t) == (b \div (2 ^ (7 - t))) % 2

\* the bytes re-expanded, highest bit first
Expand(bytes) ==
    [k \in 1..(8 * Len(bytes)) |->
        IF BitOfByte(bytes[((k - 1) \div 8) + 1], (k - 1) % 8) = 1 THEN "1" ELSE "0"]

\* C10: for every bit string of a length that is a multiple of 8, the data
\* bytes written, re-expanded highest bit first, are the bit string.
PackingRoundTrip ==
    (Framed /\ Len(call.line) % 8 = 0) =>
        (raised = "none" /\ Expand(DataBytes) = call.line)

(***************************************************************************)
(* The parity flag and the bit stream handed to the framer.                *)
(***************************************************************************)
\* pixel (x, y) of im is in the middle band
InMiddleBand(im, x, y) == ColourSum(im, x, y) \in 256..510

\* C14: the parity flag flips once for every pixel scanned, in whatever band,
\* and never for a padding bit: after the scan it is the parity of the
\* pixel count, and the bit of a middle-band pixel at column x of row y is 1
\* when its scan index y * width + x is even and 0 when it is odd, in any
\* image and at any padding.
FlagFlipsPerPixel ==
    (Encoded /\ Width >= 1 /\ Height \in 1..255) =>
        /\ locals.switch = (Width * Height) % 2
        /\ \A y \in 0..(Height - 1) : \A x \in 0..(Width - 1) :
               InMiddleBand(call.im, x, y) =>
                   PixelBitOf(x, y) = (1 - ((y * Width + x) % 2))

\* black, grey, white in turn at width 3: the grey pixel after the black one
\* gets 0, and so does the grey pixel that starts the second row
FlagFlipsPerPixelWitness ==
    /\ Encoded
    /\ call.im = [size |-> <<3, 2>>, pal |-> <<Black, Grey, White>>]
    /\ locals.switch = 0
    /\ SubSeq(locals.pix_line, 15, 17) = <<"1", "0", "0">>
    /\ SubSeq(locals.pix_line, 32 + 15, 32 + 17) = <<"0", "0", "1">>

\* character k (from 0) of the bit stream, by row and column of the matrix
StreamChar(im, k) == IF MatrixBit(im, k) = 1 THEN "1" ELSE "0"

\* C15: for width >= 1 and height in 1..255 the bit stream handed to the
\* framer is the rows top to bottom, each leftBits zeros, the pixel bits left
\* to right, rightBits zeros; its length is height * (leftBits + width +
\* rightBits), a multiple of 32, and the size handed over is [length, height].
StreamLayout ==
    (Encoded /\ Width >= 1 /\ Height \in 1..255) =>
        LET total == Height * (LeftBits(Width) + Width + RightBits(Width))
        IN  /\ Len(locals.pix_line) = total
            /\ total % 32 = 0
            /\ locals.img_size = <<total, Height>>
            /\ \A k \in 0..(total - 1) :
                   locals.pix_line[k + 1] = StreamChar(call.im, k)

\* three rows of width 33: 15 zeros, 33 pixel bits, 16 zeros, three times
StreamLayoutWitness ==
    /\ Encoded
    /\ call.im = [size |-> <<33, 3>>, pal |-> <<Black>>]
    /\ locals.img_size = <<192, 3>>
    /\ SubSeq(locals.pix_line, 64 + 15, 64 + 17) = <<"0", "1", "1">>
    /\ SubSeq(locals.pix_line, 64 + 48, 64 + 50) = <<"1", "0", "0">>

\* C16: for every bit string of a length that is a multiple of 8 every
\* packed byte is written, and when the byte count is not a multiple of 4
\* the final group of 1 to 3 bytes is flushed as a last write.
ShortGroupFlushed ==
    (Framed /\ Len(call.line) % 8 = 0) =>
        LET N == Len(call.line) \div 8
        IN  /\ raised = "none"
            /\ Len(DataBytes) = N
            /\ (N % 4 # 0) =>
                   /\ Len(written) = 3 + (N \div 4)
                   /\ Len(written[Len(written)]) = N % 4

(***************************************************************************)
(* Calls one after the other on the same object.                           *)
(***************************************************************************)
\* what the encode call of image im writes on an object just constructed
FreshWritten(im) ==
    LET w == im.size[1]
        h == im.size[2]
        N == PackedCount(w, h)
    IN  IF h > 255 THEN <<>>
        ELSE IF h = 0 THEN << <<29, 118, 48, 0>> >>
        ELSE << <<29, 118, 48, 0>>, <<PaddedWidth(w) \div 8, 0, h, 0>> >>
             \o [g \in 1..(N \div 4) |->
                    <<MatrixByte(im, 4 * (g - 1)), MatrixByte(im, 4 * (g - 1) + 1),
                      MatrixByte(im, 4 * (g - 1) + 2), MatrixByte(im, 4 * (g - 1) + 3)>>]

\* and the exception it ends with
FreshRaised(im) ==
    IF im.size[2] > 255 THEN "ValueError"
    ELSE IF im.size[2] = 0 THEN "ZeroDivisionError"
    ELSE "none"

\* C11: whatever encode calls came before on the same object, successful or
\* rejected, the encode call of an image makes the writes it makes on a fresh
\* object, and the parity flag starts from the same value: a first pixel in
\* the middle band gets 1.
NoCarriedState ==
    Encoded =>
        /\ written = FreshWritten(call.im)
        /\ raised = FreshRaised(call.im)
        /\ (Width >= 1 /\ Height \in 1..255 /\ ColourSum(call.im, 0, 0) \in 256..510)
               => locals.pix_line[LeftBits(Width) + 1] = "1"

\* a mid-tone image encoded after an image of one pixel, which left the flag at 1
NoCarriedStateWitness ==
    /\ Encoded
    /\ prev = [size |-> <<1, 1>>, pal |-> <<Grey>>]
    /\ call.im = [size |-> <<3, 2>>, pal |-> <<Grey>>]
    /\ raised = "none"
    /\ written[3] = <<0, 2, 128, 0>>
    /\ written[4] = <<0, 1, 0, 0>>

\* the same after a rejected image
NoCarriedStateAfterRejected ==
    /\ Encoded
    /\ prev = [size |-> <<1, 256>>, pal |-> <<Grey>>]
    /\ call.im = [size |-> <<3, 2>>, pal |-> <<Grey>>]
    /\ raised = "none"

(***************************************************************************)
(* The text styles.                                                        *)
(***************************************************************************)
StyleOps == {"font", "bold", "doubleHeight", "doubleWidth", "underline"}

\* a text style call that returned
StyleCalled(c, error) == c.op \in StyleOps /\ error = "none"

\* the attributes s with the value given in call c stored in the field of c
WithGiven(s, c) ==
    CASE c.op = "font" -> [s EXCEPT !._textFont = c.args[1]]
      [] c.op = "bold" -> [s EXCEPT !._textBold = (c.args[1] = "True")]
      [] c.op = "doubleHeight" -> [s EXCEPT !._textDoubleHeight = (c.args[1] = "True")]
      [] c.op = "doubleWidth" -> [s EXCEPT !._textDoubleWidth = (c.args[1] = "True")]
      [] c.op = "underline" -> [s EXCEPT !._textUnderline = (c.args[1] = "True")]

\* bit t (0 the lowest) of n is set
BitSet(n, t) == (n \div (2 ^ t)) % 2 = 1

\* n has one bit for each tracked setting of s, and no other bit
EncodesSettings(n, s) ==
    /\ n \in 0..127
    /\ BitSet(n, 6) <=> (s._textFont = "b")
    /\ ~BitSet(n, 5)
    /\ ~BitSet(n, 4)
    /\ BitSet(n, 3) <=> s._textBold
    /\ BitSet(n, 2) <=> s._textDoubleHeight
    /\ BitSet(n, 1) <=> s._textDoubleWidth
    /\ BitSet(n, 0) <=> s._textUnderline

\* C12: with usePrintMode True every valid call to font, bold, doubleHeight,
\* doubleWidth or underline stores the value given in its own tracked field,
\* leaves the other fields as they are and makes exactly one write, ESC ! n,
\* with n encoding all five tracked settings, one bit each.
PrintModeTracksSettings ==
    [][(self.usePrintMode /\ StyleCalled(call', raised')) =>
           /\ self' = WithGiven(self, call')
           /\ Len(written') = 1
           /\ Len(written'[1]) = 3
           /\ written'[1][1] = 27
           /\ written'[1][2] = 33
           /\ EncodesSettings(written'[1][3], self')]_vars

\* font b, bold and double height given earlier, then underline: n = 64+8+4+1
PrintModeTracksSettingsWitness ==
    /\ self.usePrintMode
    /\ call = [op |-> "underline", args |-> <<"True", "False">>]
    /\ self._textFont = "b"
    /\ self._textBold
    /\ self._textDoubleHeight
    /\ ~self._textDoubleWidth
    /\ written = << <<27, 33, 77>> >>

\* the command of an individual text style, where the code has one
StyleCommand(c) ==
    CASE c.op = "font" -> <<27, 77, CASE c.args[1] = "a" -> 0 [] c.args[1] = "b" -> 1 [] OTHER -> 2>>
      [] c.op = "bold" -> <<27, 69, IF c.args[1] = "True" THEN 1 ELSE 0>>
      [] c.op = "underline" ->
             <<27, 45, IF c.args[1] = "False" THEN 0 ELSE IF c.args[2] = "True" THEN 2 ELSE 1>>

\* C13: with usePrintMode False every valid call to font, bold, doubleHeight,
\* doubleWidth or underline makes exactly one write, the command of that
\* style and never ESC !, and the tracked fields stay as they were.
IndividualStyleWrites ==
    (~self.usePrintMode /\ StyleCalled(call, raised)) =>
        /\ Len(written) = 1
        /\ written[1][1] = 27
        /\ written[1][2] # 33
        /\ call.op \in {"font", "bold", "underline"} => written[1] = StyleCommand(call)
        /\ self = ClassAttributes

====
